---- MODULE Spec2Model ----
(***************************************************************************)
(* yarpc: the command registry and the request dispatch of                 *)
(* yarpc.server.Server.                                                    *)
(*                                                                         *)
(* One asyncio event loop runs every _handle_request coroutine, so a step  *)
(* of the model is the code between two suspension points (await).  The    *)
(* handlers are user code: what a handler does when it is called and when  *)
(* its result is awaited is chosen nondeterministically.  "Error" below    *)
(* means a Python Exception; cancellation and interpreter exit             *)
(* (BaseException) are outside the model, and so are the replies a handler *)
(* makes itself with request.reply: sent holds the engine's replies.       *)
(***************************************************************************)
EXTENDS Integers, Sequences, FiniteSets, TLC

\* ------------------------------------------------------------------ bounds
\* requests handed to _handle_request in one run
MaxRequests == 2
\* register_command / remove_command calls recorded in one run of SpecRegistry
MaxOps == 3
\* direct calls of Server.reply recorded in SpecReply
MaxReplyCalls == 3
\* the largest expect_responses of a call in SpecCollector
MaxExpect == 2
\* Responses that arrive for the call in SpecCollector
MaxArrivals == 3
\* requests dispatched in SpecErrors
MaxErrorRequests == 1

\* ------------------------------------------------------------------ values
Indexes == {1, 2}
Handlers == {"h1", "h2"}
Nodes == {"n1"}
\* Python None: the absent address, the absent handler, the "nothing" result
None == "None"
\* constants.NoValue: the sentinel for "no data field"
NoValue == "NoValue"
Addresses == {"A"}
\* values a handler's awaited result can be, other than None
Results == {"r1"}
\* str(e) of an error
Messages == {"e1"}
\* enums.StatusCode
StatusCode == {"OK", "UNKNOWN_COMMAND", "BAD_PARAMS", "INTERNAL_ERROR"}
\* an empty data value
Empty == "{}"
\* the data arguments of a direct Server.reply call: none given, an explicit
\* null, an empty value, a value
ReplyData == {NoValue, None, Empty} \cup Results
\* the Responses that arrive for a call, named by the node that answered
Responses == {"x", "y"}
\* the timeout of a call: none, or some duration
Timeouts == {None, "T"}
\* what fn(request, **request._data) does: returns the awaitable, fails to
\* bind the arguments (TypeError), or raises another error
CallOutcomes == {"awaitable", "TypeError", "Error"}
\* the types of the errors an awaited handler raises: a TypeError from the
\* handler's body, or another Exception
AwaitErrors == {"TypeError", "Error"}

VARIABLES
    _node,      \* Server._node
    _commands,  \* Server._commands: a function from the registered indexes
    requests,   \* the requests handed to _handle_request, in arrival order
    sent,       \* sent[r]: the payloads request r handed to _send_response
    ops,        \* SpecRegistry: the register_command/remove_command calls made
    replies,    \* SpecReply: the direct calls of Server.reply made
    collector,  \* SpecCollector: <<>> or <<the Response Collector of a call>>
    errors      \* SpecErrors: errors[r] is the type of the error the awaited
                \* handler of request r raised

vars == <<_node, _commands, requests, sent, ops, replies, collector, errors>>

\* Server.__init__
Init ==
    /\ _node \in Nodes
    /\ _commands = << >>
    /\ requests = << >>
    /\ sent = << >>
    /\ ops = << >>
    /\ replies = << >>
    /\ collector = << >>
    /\ errors = << >>

\* ------------------------------------------------------------- the registry
\* register_command without its duplicate check: the new handler replaces
\* the registered one
register_command_overwrite(index, fn) ==
    [raised |-> FALSE, ret |-> <<index>>,
     commands |-> [i \in DOMAIN _commands \cup {index} |->
                      IF i = index THEN fn ELSE _commands[i]]]

\* Server.register_command: whether it raises, what it returns, and
\* self._commands after it
register_command(index, fn) ==
    IF index \in DOMAIN _commands
    THEN [raised |-> TRUE, ret |-> << >>, commands |-> _commands]
    ELSE [raised |-> FALSE, ret |-> <<index>>,
          commands |-> (index :> fn) @@ _commands]

\* remove_command reading the entry (get) where the code removes it (pop)
remove_command_keep(index) ==
    IF index \notin DOMAIN _commands
    THEN [raised |-> TRUE, ret |-> << >>, commands |-> _commands]
    ELSE [raised |-> FALSE, ret |-> <<_commands[index]>>, commands |-> _commands]

\* Server.remove_command: whether it raises, what it returns, and
\* self._commands after it
remove_command(index) ==
    IF index \notin DOMAIN _commands
    THEN [raised |-> TRUE, ret |-> << >>, commands |-> _commands]
    ELSE [raised |-> FALSE, ret |-> <<_commands[index]>>,
          commands |-> [i \in DOMAIN _commands \ {index} |-> _commands[i]]]

\* a call of register_command
Register(index, fn) ==
    /\ _commands' = register_command(index, fn).commands
    /\ UNCHANGED <<_node, requests, sent, replies, collector, errors>>

\* remove_command that also ends the suspended dispatches of the command
Remove_cancelling(index) ==
    /\ _commands' = remove_command(index).commands
    /\ requests' = [r \in DOMAIN requests |->
          IF requests[r].command_index = index /\ requests[r].pc = "awaiting"
          THEN [requests[r] EXCEPT !.pc = "raised"]
          ELSE requests[r]]
    /\ UNCHANGED <<_node, sent, replies, collector, errors>>

\* a call of remove_command
Remove(index) ==
    /\ _commands' = remove_command(index).commands
    /\ UNCHANGED <<_node, requests, sent, replies, collector, errors>>

\* ------------------------------------------------------------------ replies
\* self.node, the property Server.reply and Server.start read: the node
\* identifier kept by __init__
node == _node

\* Server.reply without its address check
reply_any_address(address, status, data) ==
    LET payload == [s |-> status, n |-> node, a |-> address]
    IN  IF data # NoValue
        THEN <<payload @@ [d |-> data]>>
        ELSE <<payload>>

\* Server.reply leaving the data out of the payload
reply_no_data(address, status, data) ==
    IF address = None
    THEN << >>
    ELSE <<[s |-> status, n |-> node, a |-> address]>>

\* Server.reply testing the data for truth instead of "is not NoValue"
reply_truthy_data(address, status, data) ==
    IF address = None
    THEN << >>
    ELSE LET payload == [s |-> status, n |-> node, a |-> address]
         IN  IF data \notin {NoValue, None, Empty}
             THEN <<payload @@ [d |-> data]>>
             ELSE <<payload>>

\* Server.reply: the payloads it hands to _send_response (none or one)
reply(address, status, data) ==
    IF address = None
    THEN << >>
    ELSE LET payload == [s |-> status, n |-> node, a |-> address]
         IN  IF data # NoValue
             THEN <<payload @@ [d |-> data]>>
             ELSE <<payload>>

\* Request._reply_with_status: replies to the request's own address
_reply_with_status(address, data, status) == reply(address, status, data)

\* Request.reply: a reply with status OK
request_reply(address, data) == _reply_with_status(address, data, "OK")

\* where _handle_request is after a reply: suspended in _send_response, or
\* returned because Server.reply had nothing to send
AfterReply(payloads) == IF payloads = << >> THEN "done" ELSE "sending"

\* ----------------------------------------------------------------- dispatch
\* a lookup that falls back to a handler where the code's get gives None
get_default(index) ==
    IF index \in DOMAIN _commands THEN _commands[index] ELSE "h1"

\* self._commands.get(request.command_index)
get(index) == IF index \in DOMAIN _commands THEN _commands[index] ELSE None

\* _handle_request, fn is None: the UNKNOWN_COMMAND reply
ReplyUnknown(address) == _reply_with_status(address, NoValue, "UNKNOWN_COMMAND")

\* the BAD_PARAMS reply without str(e)
ReplyBadParams_NoMessage(address, msg) ==
    reply(address, "BAD_PARAMS", NoValue)

\* the except TypeError block without its return: the dispatch goes on to
\* the await, which fails and is answered too
ReplyBadParams_NoReturn(address, msg) ==
    reply(address, "BAD_PARAMS", msg) \o reply(address, "INTERNAL_ERROR", msg)

\* _handle_request, except TypeError: the BAD_PARAMS reply
ReplyBadParams(address, msg) == _reply_with_status(address, msg, "BAD_PARAMS")

\* a handler error that is logged and not answered
ReplyInternalError_Silent(address, msg) == << >>

\* a handler error answered with the status of the except TypeError block
ReplyInternalError_AsBadParams(address, msg) ==
    reply(address, "BAD_PARAMS", msg)

\* _handle_request, except Exception: the INTERNAL_ERROR reply
ReplyInternalError(address, msg) == _reply_with_status(address, msg, "INTERNAL_ERROR")

\* an await guarded like the call: a TypeError answered BAD_PARAMS
ExceptException_TypeErrorFirst(address, exc, msg) ==
    IF exc = "TypeError"
    THEN ReplyBadParams(address, msg)
    ELSE ReplyInternalError(address, msg)

\* _handle_request, except Exception around the await: every error type is
\* caught by the one handler
ExceptException(address, exc, msg) == ReplyInternalError(address, msg)

\* _handle_request without its "command_result is None" return
ReplyResult_Always(address, command_result) ==
    reply(address, "OK", command_result)

\* _handle_request, after the await: nothing for None, else request.reply
ReplyResult(address, command_result) ==
    IF command_result = None
    THEN << >>
    ELSE request_reply(address, command_result)

\* the Request and where its _handle_request is: pc is "awaiting" (suspended
\* in await command), "sending" (suspended in _send_response), "done"
\* (returned) or "raised" (ended by an error); branch is the branch taken;
\* value is what the handler returned or the message of what it raised; steps
\* is what _handle_request did so far, in the order of its lines: "lookup"
\* (line 77), "call" (line 86), "await" (line 95 completed or failed) and
\* "reply" (a reply operation begun: lines 79, 88, 97, 113)
NewRequest(index, address, fn, pc, branch, value, steps) ==
    [command_index |-> index, address |-> address, fn |-> fn, pc |-> pc,
     branch |-> branch, value |-> value, steps |-> steps]

\* _handle_request acknowledging the request with an OK Response as soon as
\* the call returned its awaitable, before awaiting it
_handle_request_early_ok(index, address) ==
    /\ Len(requests) < MaxRequests
    /\ LET fn == get(index)
       IN  IF fn = None
           THEN LET p == ReplyUnknown(address)
                IN  /\ sent' = Append(sent, p)
                    /\ requests' = Append(requests,
                          NewRequest(index, address, fn, AfterReply(p),
                                     "unknown_command", None,
                                     <<"lookup", "reply">>))
           ELSE \E outcome \in CallOutcomes :
                  CASE outcome = "TypeError" ->
                         \E msg \in Messages :
                           LET p == ReplyBadParams(address, msg)
                           IN  /\ sent' = Append(sent, p)
                               /\ requests' = Append(requests,
                                     NewRequest(index, address, fn, AfterReply(p),
                                                "bad_params", msg,
                                                <<"lookup", "call", "reply">>))
                    [] outcome = "Error" ->
                         \E msg \in Messages :
                           /\ sent' = Append(sent, << >>)
                           /\ requests' = Append(requests,
                                 NewRequest(index, address, fn, "raised",
                                            "call_error", msg,
                                            <<"lookup", "call">>))
                    [] outcome = "awaitable" ->
                         /\ sent' = Append(sent, reply(address, "OK", NoValue))
                         /\ requests' = Append(requests,
                               NewRequest(index, address, fn, "awaiting",
                                          "awaiting", None,
                                          <<"lookup", "call", "reply">>))
    /\ UNCHANGED <<_node, _commands, ops, replies, collector, errors>>

\* _handle_request taking the handler out of the registry (pop) where the
\* code reads it (get)
_handle_request_pop(index, address) ==
    /\ Len(requests) < MaxRequests
    /\ _commands' = [i \in DOMAIN _commands \ {index} |-> _commands[i]]
    /\ LET fn == get(index)
       IN  IF fn = None
           THEN LET p == ReplyUnknown(address)
                IN  /\ sent' = Append(sent, p)
                    /\ requests' = Append(requests,
                          NewRequest(index, address, fn, AfterReply(p),
                                     "unknown_command", None,
                                     <<"lookup", "reply">>))
           ELSE \E outcome \in CallOutcomes :
                  CASE outcome = "TypeError" ->
                         \E msg \in Messages :
                           LET p == ReplyBadParams(address, msg)
                           IN  /\ sent' = Append(sent, p)
                               /\ requests' = Append(requests,
                                     NewRequest(index, address, fn, AfterReply(p),
                                                "bad_params", msg,
                                                <<"lookup", "call", "reply">>))
                    [] outcome = "Error" ->
                         \E msg \in Messages :
                           /\ sent' = Append(sent, << >>)
                           /\ requests' = Append(requests,
                                 NewRequest(index, address, fn, "raised",
                                            "call_error", msg,
                                            <<"lookup", "call">>))
                    [] outcome = "awaitable" ->
                         /\ sent' = Append(sent, << >>)
                         /\ requests' = Append(requests,
                               NewRequest(index, address, fn, "awaiting",
                                          "awaiting", None,
                                          <<"lookup", "call">>))
    /\ UNCHANGED <<_node, ops, replies, collector, errors>>

\* Server._handle_request, from its start to its first suspension point
_handle_request(index, address) ==
    /\ Len(requests) < MaxRequests
    /\ LET fn == get(index)
       IN  IF fn = None
           THEN LET p == ReplyUnknown(address)
                IN  /\ sent' = Append(sent, p)
                    /\ requests' = Append(requests,
                          NewRequest(index, address, fn, AfterReply(p),
                                     "unknown_command", None,
                                     <<"lookup", "reply">>))
           ELSE \E outcome \in CallOutcomes :
                  CASE outcome = "TypeError" ->
                         \E msg \in Messages :
                           LET p == ReplyBadParams(address, msg)
                           IN  /\ sent' = Append(sent, p)
                               /\ requests' = Append(requests,
                                     NewRequest(index, address, fn, AfterReply(p),
                                                "bad_params", msg,
                                                <<"lookup", "call", "reply">>))
                    [] outcome = "Error" ->
                         \E msg \in Messages :
                           /\ sent' = Append(sent, << >>)
                           /\ requests' = Append(requests,
                                 NewRequest(index, address, fn, "raised",
                                            "call_error", msg,
                                            <<"lookup", "call">>))
                    [] outcome = "awaitable" ->
                         /\ sent' = Append(sent, << >>)
                         /\ requests' = Append(requests,
                               NewRequest(index, address, fn, "awaiting",
                                          "awaiting", None,
                                          <<"lookup", "call">>))
    /\ UNCHANGED <<_node, _commands, ops, replies, collector, errors>>

\* _handle_request keeping the request in an attribute of the server that the
\* next dispatch overwrites: after the await the reply is made on the request
\* received last
await_command_shared_request(r) ==
    /\ r \in DOMAIN requests
    /\ requests[r].pc = "awaiting"
    /\ LET last == Len(requests)
       IN  \/ \E command_result \in Results \cup {None} :
                LET p == ReplyResult(requests[last].address, command_result)
                IN  /\ sent' = [sent EXCEPT ![last] = @ \o p]
                    /\ requests' = [requests EXCEPT
                          ![r].pc = AfterReply(p),
                          ![r].branch = IF command_result = None
                                        THEN "nothing" ELSE "ok",
                          ![r].value = command_result,
                          ![r].steps = IF command_result = None
                                       THEN @ \o <<"await">>
                                       ELSE @ \o <<"await", "reply">>]
           \/ \E exc \in AwaitErrors, msg \in Messages :
                LET p == ExceptException(requests[last].address, exc, msg)
                IN  /\ sent' = [sent EXCEPT ![last] = @ \o p]
                    /\ requests' = [requests EXCEPT
                          ![r].pc = AfterReply(p),
                          ![r].branch = "internal_error",
                          ![r].value = msg,
                          ![r].steps = @ \o <<"await", "reply">>]
    /\ UNCHANGED <<_node, _commands, ops, replies, collector, errors>>

\* what `await command` does: the handler returns a result (None when it
\* returns nothing) or raises an error of some type with some message
AwaitOutcomes ==
    {[raised |-> FALSE, exc |-> None, value |-> v] : v \in Results \cup {None}}
    \cup {[raised |-> TRUE, exc |-> e, value |-> m] :
              e \in AwaitErrors, m \in Messages}

\* Server._handle_request, line 94 on, for one outcome of the await (errors
\* is left to the caller)
resume(r, outcome) ==
    /\ r \in DOMAIN requests
    /\ requests[r].pc = "awaiting"
    /\ IF outcome.raised
       THEN LET p == ExceptException(requests[r].address, outcome.exc,
                                     outcome.value)
            IN  /\ sent' = [sent EXCEPT ![r] = @ \o p]
                /\ requests' = [requests EXCEPT
                      ![r].pc = AfterReply(p),
                      ![r].branch = "internal_error",
                      ![r].value = outcome.value,
                      ![r].steps = @ \o <<"await", "reply">>]
       ELSE LET p == ReplyResult(requests[r].address, outcome.value)
            IN  /\ sent' = [sent EXCEPT ![r] = @ \o p]
                /\ requests' = [requests EXCEPT
                      ![r].pc = AfterReply(p),
                      ![r].branch = IF outcome.value = None
                                    THEN "nothing" ELSE "ok",
                      ![r].value = outcome.value,
                      ![r].steps = IF outcome.value = None
                                   THEN @ \o <<"await">>
                                   ELSE @ \o <<"await", "reply">>]
    /\ UNCHANGED <<_node, _commands, ops, replies, collector>>

\* Server._handle_request, line 94 on: the awaited handler returns or raises
await_command(r) ==
    /\ \E outcome \in AwaitOutcomes : resume(r, outcome)
    /\ UNCHANGED errors

\* Connection._send_response: the awaited send completes, or fails with an
\* error that nothing in Server.reply or _handle_request catches
_send_response(r) ==
    /\ r \in DOMAIN requests
    /\ requests[r].pc = "sending"
    /\ \/ requests' = [requests EXCEPT ![r].pc = "done"]
       \/ requests' = [requests EXCEPT ![r].pc = "raised"]
    /\ UNCHANGED <<_node, _commands, sent, ops, replies, collector, errors>>

\* ----------------------------------------------------------- specifications
\* the server: registry calls and request dispatch, interleaved
Next ==
    \/ \E i \in Indexes, h \in Handlers : Register(i, h) /\ UNCHANGED ops
    \/ \E i \in Indexes : Remove(i) /\ UNCHANGED ops
    \/ \E i \in Indexes, a \in Addresses \cup {None} : _handle_request(i, a)
    \/ \E r \in 1..MaxRequests : await_command(r)
    \/ \E r \in 1..MaxRequests : _send_response(r)

Spec == Init /\ [][Next]_vars

\* Server.reply called directly, as ABCServer offers it: one call, recorded
\* with what it built
ReplyCall(address, status, data) ==
    /\ Len(replies) < MaxReplyCalls
    /\ replies' = Append(replies,
          [address |-> address, status |-> status, data |-> data,
           payloads |-> reply(address, status, data)])
    /\ UNCHANGED <<_node, _commands, requests, sent, ops, collector, errors>>

NextReply ==
    \E a \in Addresses \cup {None}, st \in StatusCode, d \in ReplyData :
        ReplyCall(a, st, d)

SpecReply == Init /\ [][NextReply]_vars

\* ------------------------------------------------------ the Response Collector
\* completion by count: the expected count is positive and reached
count_reached(expect, received) == expect > 0 /\ received = expect

\* a collector that accepts every Response that arrives
feed_always(c, response) ==
    [c EXCEPT !.responses = Append(@, response),
              !.complete = IF count_reached(c.expect, Len(c.responses) + 1)
                           THEN "count" ELSE @]

\* a Response arrives from the transport for the call of collector c: it is
\* accepted while the completion condition has not fired, ignored after
feed(c, response) ==
    IF c.complete = "no"
    THEN [c EXCEPT !.responses = Append(@, response),
                   !.complete = IF count_reached(c.expect, Len(c.responses) + 1)
                                THEN "count" ELSE "no"]
    ELSE c

\* a bulk wait handing out the newest Response first
__await___newest_first(c) ==
    [raised |-> FALSE,
     ret |-> [i \in 1..Len(c.responses) |->
                 c.responses[Len(c.responses) + 1 - i]]]

\* a bulk wait that treats the elapsed deadline as an error
__await___timeout_error(c) ==
    [raised |-> c.complete = "deadline",
     ret |-> IF c.complete = "deadline" THEN << >> ELSE c.responses]

\* ResponsesIterator.__await__, the bulk wait, once the completion condition
\* has fired: the Responses gathered so far, in order, and no error
__await__(c) == [raised |-> FALSE, ret |-> c.responses]

\* ABCClient.call: a collector for the call, which the caller awaits
call(expect_responses, timeout) ==
    /\ collector = << >>
    /\ collector' = <<[expect |-> expect_responses, timeout |-> timeout,
                       responses |-> << >>, complete |-> "no",
                       arrivals |-> << >>, at_deadline |-> << >>,
                       returned |-> << >>]>>
    /\ UNCHANGED <<_node, _commands, requests, sent, ops, replies, errors>>

\* the transport delivers a Response for the call; arrivals keeps every
\* Response that arrived, accepted or not
Arrive(response) ==
    /\ collector # << >>
    /\ Len(collector[1].arrivals) < MaxArrivals
    /\ collector' = <<[feed(collector[1], response) EXCEPT
                         !.arrivals = Append(@, response)]>>
    /\ UNCHANGED <<_node, _commands, requests, sent, ops, replies, errors>>

\* the deadline of the call elapses; at_deadline is << >> before, and after
\* it holds how many Responses had arrived by then
DeadlineElapses ==
    /\ collector # << >>
    /\ collector[1].timeout # None
    /\ collector[1].at_deadline = << >>
    /\ collector' = <<[collector[1] EXCEPT
                         !.complete = IF @ = "no" THEN "deadline" ELSE @,
                         !.at_deadline = <<Len(collector[1].arrivals)>>]>>
    /\ UNCHANGED <<_node, _commands, requests, sent, ops, replies, errors>>

\* the suspended bulk wait is resumed after completion and returns
BulkWaitReturns ==
    /\ collector # << >>
    /\ collector[1].complete # "no"
    /\ collector[1].returned = << >>
    /\ collector' = <<[collector[1] EXCEPT
                         !.returned = <<__await__(collector[1])>>]>>
    /\ UNCHANGED <<_node, _commands, requests, sent, ops, replies, errors>>

NextCollector ==
    \/ \E n \in 0..MaxExpect, t \in Timeouts : call(n, t)
    \/ \E response \in Responses : Arrive(response)
    \/ DeadlineElapses
    \/ BulkWaitReturns

\* time passes and the event loop resumes the waiting caller
FairnessCollector == WF_vars(DeadlineElapses) /\ WF_vars(BulkWaitReturns)

SpecCollector == Init /\ [][NextCollector]_vars /\ FairnessCollector

\* the dispatch of a request with the type of the error its awaited handler
\* raised recorded
DispatchRecorded(index, address) ==
    /\ Len(requests) < MaxErrorRequests
    /\ _handle_request(index, address)

AwaitRecorded(r) ==
    \E outcome \in AwaitOutcomes :
        /\ resume(r, outcome)
        /\ errors' = IF outcome.raised
                     THEN (r :> outcome.exc) @@ errors
                     ELSE errors

NextErrors ==
    \/ \E i \in Indexes, h \in Handlers : Register(i, h) /\ UNCHANGED ops
    \/ \E i \in Indexes, a \in Addresses \cup {None} : DispatchRecorded(i, a)
    \/ \E r \in 1..MaxErrorRequests : AwaitRecorded(r)
    \/ \E r \in 1..MaxErrorRequests : _send_response(r)

SpecErrors == Init /\ [][NextErrors]_vars

\* the registry alone, every call recorded with its arguments, the registry
\* before it and its outcome
RegisterCall(index, fn) ==
    /\ Len(ops) < MaxOps
    /\ Register(index, fn)
    /\ ops' = Append(ops, [op |-> "register", index |-> index, fn |-> fn,
                           before |-> _commands,
                           raised |-> register_command(index, fn).raised,
                           ret |-> register_command(index, fn).ret])

RemoveCall(index) ==
    /\ Len(ops) < MaxOps
    /\ Remove(index)
    /\ ops' = Append(ops, [op |-> "remove", index |-> index, fn |-> None,
                           before |-> _commands,
                           raised |-> remove_command(index).raised,
                           ret |-> remove_command(index).ret])

NextRegistry ==
    \/ \E i \in Indexes, h \in Handlers : RegisterCall(i, h)
    \/ \E i \in Indexes : RemoveCall(i)

SpecRegistry == Init /\ [][NextRegistry]_vars

\* the event loop resumes every suspended coroutine: an awaited handler
\* returns or raises, an awaited send completes or fails
Fairness ==
    \A r \in 1..MaxRequests :
        WF_vars(await_command(r)) /\ WF_vars(_send_response(r))

FairSpec == Spec /\ Fairness

\* =================================================================== claims
\* _handle_request of request r has returned or has ended with an error
Terminated(r) == requests[r].pc \in {"done", "raised"}

\* the payload of a Response without and with a data field
Response(status, address) == [s |-> status, n |-> _node, a |-> address]

ResponseWithData(status, address, data) ==
    [s |-> status, n |-> _node, a |-> address, d |-> data]

\* what request r hands to the transport when it replies with status and data
RepliedWith(r, status) ==
    IF requests[r].address = None
    THEN << >>
    ELSE <<ResponseWithData(status, requests[r].address, requests[r].value)>>

C1_Expected(r) ==
    IF \/ requests[r].address = None
       \/ requests[r].branch \in {"nothing", "call_error"}
    THEN 0
    ELSE 1

C1_Safety ==
    \A r \in DOMAIN requests :
        /\ Len(sent[r]) <= 1
        /\ requests[r].address = None => Len(sent[r]) = 0
        /\ Terminated(r) => Len(sent[r]) = C1_Expected(r)

DispatchedUnregistered(r) ==
    /\ Len(requests) = r - 1
    /\ Len(requests') = r
    /\ requests'[r].command_index \notin DOMAIN _commands

\* C2 as stated: dispatching a request whose index is not registered invokes
\* no handler and yields a Response with status UNKNOWN_COMMAND and no data
\* field.
C2_Original ==
    [][\A r \in 1..MaxRequests :
         DispatchedUnregistered(r) =>
            /\ requests'[r].fn = None
            /\ requests'[r].branch = "unknown_command"
            /\ Len(sent'[r]) = 1
            /\ sent'[r][1].s = "UNKNOWN_COMMAND"
            /\ "d" \notin DOMAIN sent'[r][1]]_vars

\* the request took the unknown-command branch: no handler, and its only
\* Response, if its address is present, is UNKNOWN_COMMAND without data
C2_Unknown(r) ==
    /\ requests[r].fn = None
    /\ requests[r].pc \in {"sending", "done", "raised"}
    /\ sent[r] = IF requests[r].address = None
                 THEN << >>
                 ELSE <<Response("UNKNOWN_COMMAND", requests[r].address)>>

\* C2 (amended): for every registry content, dispatching a request whose
\* index is not registered invokes no handler and, if the request's address is
\* present, yields one Response with status UNKNOWN_COMMAND and no data field;
\* if the address is absent it yields no Response.
C2_Amended ==
    /\ [][\A r \in 1..MaxRequests :
            DispatchedUnregistered(r) =>
               /\ requests'[r].branch = "unknown_command"
               /\ requests'[r].fn = None
               /\ sent'[r] = IF requests'[r].address = None
                             THEN << >>
                             ELSE <<Response("UNKNOWN_COMMAND", requests'[r].address)>>]_vars
    /\ [](\A r \in DOMAIN requests :
            requests[r].branch = "unknown_command" => C2_Unknown(r))

\* a request with an address was answered UNKNOWN_COMMAND while the other
\* index was registered
C2_Witness ==
    \E r \in DOMAIN requests :
        /\ requests[r].branch = "unknown_command"
        /\ requests[r].address # None
        /\ requests[r].pc = "done"
        /\ DOMAIN _commands = Indexes \ {requests[r].command_index}
        /\ sent[r] = <<Response("UNKNOWN_COMMAND", requests[r].address)>>

\* ----------------------------------------------------------------------- C3
\* C3: a request whose address is absent never hands a Response to the
\* transport, on any branch, and is never suspended in a send.
C3_NoAddressNoResponse ==
    \A r \in DOMAIN requests :
        requests[r].address = None =>
            sent[r] = << >> /\ requests[r].pc # "sending"

\* two requests without address have ended, one whose handler raised while
\* awaited and one whose handler returned a value
C3_Witness ==
    \E r1, r2 \in DOMAIN requests :
        /\ requests[r1].address = None /\ requests[r2].address = None
        /\ requests[r1].branch = "internal_error" /\ requests[r1].pc = "done"
        /\ requests[r2].branch = "ok" /\ requests[r2].pc = "done"
        /\ requests[r2].value \in Results

\* ----------------------------------------------------------------------- C4
\* C4 as stated: a handler that raises while awaited gets exactly one
\* Response, INTERNAL_ERROR with the message as data.
C4_Original ==
    \A r \in DOMAIN requests :
        requests[r].branch = "internal_error" =>
            /\ Len(sent[r]) = 1
            /\ sent[r][1].s = "INTERNAL_ERROR"
            /\ sent[r][1].d = requests[r].value

\* the step in which the awaited handler of request r raises
AwaitRaised(r) ==
    /\ r \in DOMAIN requests
    /\ requests[r].pc = "awaiting"
    /\ requests'[r].branch = "internal_error"

\* C4 (amended): if the handler of a request raises while awaited and the
\* request's address is present, exactly one Response is sent for it, with
\* status INTERNAL_ERROR and the message as data (none if the address is
\* absent); the step changes neither the registry nor the node identifier,
\* and the server still dispatches further requests.
C4_Amended ==
    /\ [](\A r \in DOMAIN requests :
            requests[r].branch = "internal_error" =>
               /\ requests[r].value \in Messages
               /\ sent[r] = RepliedWith(r, "INTERNAL_ERROR"))
    /\ [][(\E r \in 1..MaxRequests : AwaitRaised(r)) =>
             UNCHANGED <<_node, _commands>>]_vars
    /\ []((/\ \E r \in DOMAIN requests : requests[r].branch = "internal_error"
           /\ Len(requests) < MaxRequests)
          => \A i \in Indexes, a \in Addresses \cup {None} :
                ENABLED _handle_request(i, a))

\* the handler of the first request raised, its INTERNAL_ERROR Response was
\* sent, and the second request was answered OK
C4_Witness ==
    /\ Len(requests) = 2
    /\ requests[1].branch = "internal_error" /\ requests[1].address # None
    /\ requests[1].pc = "done"
    /\ sent[1] = <<ResponseWithData("INTERNAL_ERROR", requests[1].address,
                                    requests[1].value)>>
    /\ requests[2].branch = "ok" /\ requests[2].address # None
    /\ requests[2].pc = "done" /\ Len(sent[2]) = 1

\* ----------------------------------------------------------------------- C5
\* C5: when the handler's awaited result is None, _handle_request returns
\* without sending a Response, also when the address is present.
C5_NothingNoResponse ==
    \A r \in DOMAIN requests :
        requests[r].branch = "nothing" =>
            sent[r] = << >> /\ requests[r].pc = "done"

\* a request with an address whose handler returned None
C5_Witness ==
    \E r \in DOMAIN requests :
        /\ requests[r].branch = "nothing"
        /\ requests[r].value = None
        /\ requests[r].address # None

\* ----------------------------------------------------------------------- C6
\* C6 as stated: no _handle_request ends with an error.
C6_Original ==
    \A r \in DOMAIN requests : requests[r].pc # "raised"

\* ----------------------------------------------------------------------- C7
\* the registry after the k-th recorded call
After(k) == IF k < Len(ops) THEN ops[k + 1].before ELSE _commands

\* the registry `commands` with index mapped to fn and nothing else changed
With(commands, index, fn) ==
    [i \in DOMAIN commands \cup {index} |->
        IF i = index THEN fn ELSE commands[i]]

\* C7: register_command on a registered index raises and leaves the registry
\* as it was, the index still mapped to the first handler; on an unregistered
\* index it stores the handler there, returns the index and changes no other
\* entry.
C7_Register ==
    \A k \in DOMAIN ops :
        ops[k].op = "register" =>
            IF ops[k].index \in DOMAIN ops[k].before
            THEN /\ ops[k].raised
                 /\ After(k) = ops[k].before
                 /\ After(k)[ops[k].index] = ops[k].before[ops[k].index]
            ELSE /\ ~ops[k].raised
                 /\ ops[k].ret = <<ops[k].index>>
                 /\ After(k) = With(ops[k].before, ops[k].index, ops[k].fn)

\* an index was registered, then registered again with another handler while
\* the other index was registered too
C7_Witness ==
    \E k \in DOMAIN ops :
        /\ ops[k].op = "register" /\ ops[k].raised
        /\ DOMAIN ops[k].before = Indexes
        /\ ops[k].before[ops[k].index] # ops[k].fn
        /\ \E j \in 1..(k - 1) :
              /\ ops[j].op = "register" /\ ~ops[j].raised
              /\ ops[j].index = ops[k].index
              /\ _commands[ops[k].index] = ops[j].fn

\* ----------------------------------------------------------------------- C8
\* C8: remove_command on an unregistered index raises and leaves the registry
\* as it was; on a registered index it returns the handler registered there
\* and removes that entry only, so that register_command(i, h) followed by
\* remove_command(i) returns h and restores the registry.
C8_Remove ==
    /\ \A k \in DOMAIN ops :
          ops[k].op = "remove" =>
              IF ops[k].index \notin DOMAIN ops[k].before
              THEN /\ ops[k].raised
                   /\ After(k) = ops[k].before
              ELSE /\ ~ops[k].raised
                   /\ ops[k].ret = <<ops[k].before[ops[k].index]>>
                   /\ DOMAIN After(k) = DOMAIN ops[k].before \ {ops[k].index}
                   /\ \A i \in DOMAIN After(k) : After(k)[i] = ops[k].before[i]
    /\ \A k \in 1..(Len(ops) - 1) :
          (/\ ops[k].op = "register" /\ ~ops[k].raised
           /\ ops[k + 1].op = "remove" /\ ops[k + 1].index = ops[k].index)
          => /\ ops[k + 1].ret = <<ops[k].fn>>
             /\ After(k + 1) = ops[k].before

\* with one index registered, the other was registered and then removed
C8_Witness ==
    \E k \in 1..(Len(ops) - 1) :
        /\ ops[k].op = "register" /\ ~ops[k].raised
        /\ ops[k].before # << >>
        /\ ops[k + 1].op = "remove" /\ ops[k + 1].index = ops[k].index
        /\ ops[k + 1].ret = <<ops[k].fn>>
        /\ k + 1 = Len(ops) /\ _commands = ops[k].before

\* ----------------------------------------------------------------------- C9
\* C9: a request with an address whose registered handler was called, was
\* awaited and returned a value other than None has exactly one Response:
\* status OK, the server's node, the request's address, the value as data.
C9_OkResponse ==
    \A r \in DOMAIN requests :
        (requests[r].branch = "ok" /\ requests[r].address # None) =>
            /\ requests[r].fn \in Handlers
            /\ requests[r].value \in Results
            /\ sent[r] = <<ResponseWithData("OK", requests[r].address,
                                            requests[r].value)>>

\* a request with an address was answered OK and its _handle_request returned
C9_Witness ==
    \E r \in DOMAIN requests :
        /\ requests[r].branch = "ok" /\ requests[r].address # None
        /\ requests[r].pc = "done"
        /\ sent[r] = <<[s |-> "OK", n |-> _node, a |-> requests[r].address,
                        d |-> requests[r].value]>>

\* ---------------------------------------------------------------------- C10
\* C10 as stated: when the call of the handler fails to bind the arguments,
\* one Response BAD_PARAMS with the message as data is sent and the handler's
\* result is never awaited.
C10_Original ==
    \A r \in DOMAIN requests :
        requests[r].branch = "bad_params" =>
            /\ requests[r].pc # "awaiting"
            /\ Len(sent[r]) = 1
            /\ sent[r][1].s = "BAD_PARAMS"
            /\ sent[r][1].d = requests[r].value

\* C10 (amended): when the call of the handler fails to bind the arguments
\* and the request's address is present, one Response BAD_PARAMS with the
\* message as data is sent (none if the address is absent); the handler's
\* result is never awaited and the dispatch sends nothing more.
C10_Amended ==
    /\ [](\A r \in DOMAIN requests :
            requests[r].branch = "bad_params" =>
               /\ requests[r].pc \in {"sending", "done", "raised"}
               /\ requests[r].value \in Messages
               /\ sent[r] = RepliedWith(r, "BAD_PARAMS"))
    /\ [][\A r \in DOMAIN requests :
            requests[r].branch = "bad_params" =>
               /\ requests'[r].branch = "bad_params"
               /\ requests'[r].pc # "awaiting"
               /\ sent'[r] = sent[r]]_vars

\* a request with an address was answered BAD_PARAMS and its _handle_request
\* returned
C10_Witness ==
    \E r \in DOMAIN requests :
        /\ requests[r].branch = "bad_params" /\ requests[r].address # None
        /\ requests[r].pc = "done"
        /\ sent[r] = <<ResponseWithData("BAD_PARAMS", requests[r].address,
                                        requests[r].value)>>

\* ----------------------------------------------------------------------- C11
\* C11: every payload Server.reply builds for a present address holds the
\* status value, the node id and the address; it holds a data field exactly
\* when the data argument is not NoValue, and that field is the argument, an
\* explicit null or an empty value included; with no address nothing is built
C11_Payload ==
    \A k \in DOMAIN replies :
        LET c == replies[k]
        IN  IF c.address = None
            THEN c.payloads = << >>
            ELSE /\ Len(c.payloads) = 1
                 /\ LET payload == c.payloads[1]
                    IN  /\ {"s", "n", "a"} \subseteq DOMAIN payload
                        /\ DOMAIN payload \subseteq {"s", "n", "a", "d"}
                        /\ payload.s = c.status
                        /\ payload.n = _node
                        /\ payload.a = c.address
                        /\ ("d" \in DOMAIN payload) <=> (c.data # NoValue)
                        /\ (c.data # NoValue) => payload["d"] = c.data

\* replies with an explicit null, with an empty value and with no data
C11_Witness ==
    /\ \E k \in DOMAIN replies :
          /\ replies[k].address # None /\ replies[k].data = None
          /\ replies[k].payloads[1]["d"] = None
    /\ \E k \in DOMAIN replies :
          /\ replies[k].address # None /\ replies[k].data = Empty
          /\ replies[k].payloads[1]["d"] = Empty
    /\ \E k \in DOMAIN replies :
          /\ replies[k].address # None /\ replies[k].data = NoValue
          /\ "d" \notin DOMAIN replies[k].payloads[1]

\* ----------------------------------------------------------------------- C12
\* what the dispatch of one request has handed to the transport, from that
\* request alone: its address, the branch its own handler took and the value
\* its own handler returned or raised
OwnResponses(request) ==
    IF request.address = None
    THEN << >>
    ELSE CASE request.branch = "unknown_command" ->
                <<Response("UNKNOWN_COMMAND", request.address)>>
           [] request.branch = "bad_params" ->
                <<ResponseWithData("BAD_PARAMS", request.address, request.value)>>
           [] request.branch = "internal_error" ->
                <<ResponseWithData("INTERNAL_ERROR", request.address,
                                   request.value)>>
           [] request.branch = "ok" ->
                <<ResponseWithData("OK", request.address, request.value)>>
           [] OTHER -> << >>

\* C12: whatever requests are in flight together and in whatever order their
\* handlers return, raise or return nothing, what is sent for a request
\* (whether a Response is sent, its status, data and address) is a function
\* of that request and of its own handler's outcome
C12_Isolation ==
    \A r \in DOMAIN requests : sent[r] = OwnResponses(requests[r])

\* two requests with an address: the handler of the one dispatched first
\* returned a value, the handler of the other raised, and each request has the
\* Response of its own outcome
C12_Witness ==
    \E r1, r2 \in DOMAIN requests :
        /\ r1 < r2
        /\ requests[r1].address # None /\ requests[r2].address # None
        /\ requests[r1].branch = "ok" /\ requests[r2].branch = "internal_error"
        /\ sent[r1] = <<ResponseWithData("OK", requests[r1].address,
                                         requests[r1].value)>>
        /\ sent[r2] = <<ResponseWithData("INTERNAL_ERROR",
                                         requests[r2].address,
                                         requests[r2].value)>>

\* ----------------------------------------------------------------------- C13
\* the position of the first e in the sequence of steps, 0 when there is none
Pos(steps, e) ==
    IF \E i \in DOMAIN steps : steps[i] = e
    THEN CHOOSE i \in DOMAIN steps :
            steps[i] = e /\ \A j \in DOMAIN steps : steps[j] = e => i <= j
    ELSE 0

\* e1 and e2 both happened, e1 first
HappensBefore(steps, e1, e2) ==
    /\ Pos(steps, e1) > 0
    /\ Pos(steps, e1) < Pos(steps, e2)

\* C13: for a request whose handler was found, a reply is begun, and so a
\* Response sent, only after the handler was called; the Response is OK,
\* BAD_PARAMS or INTERNAL_ERROR; an OK or INTERNAL_ERROR Response is sent
\* only after the awaited result completed or failed, and nothing is sent
\* while the result is awaited
C13_ReplyAfterInvocation ==
    \A r \in DOMAIN requests :
        requests[r].fn # None =>
            LET steps == requests[r].steps
            IN  /\ sent[r] # << >> => Pos(steps, "reply") > 0
                /\ Pos(steps, "reply") > 0 =>
                      HappensBefore(steps, "call", "reply")
                /\ requests[r].pc = "awaiting" => sent[r] = << >>
                /\ \A i \in DOMAIN sent[r] :
                      /\ sent[r][i].s \in {"OK", "BAD_PARAMS", "INTERNAL_ERROR"}
                      /\ sent[r][i].s \in {"OK", "INTERNAL_ERROR"} =>
                            /\ HappensBefore(steps, "call", "await")
                            /\ HappensBefore(steps, "await", "reply")

\* an OK Response sent after the call and the await, and a BAD_PARAMS
\* Response sent after the call
C13_Witness ==
    \E r1, r2 \in DOMAIN requests :
        /\ requests[r1].fn # None /\ requests[r2].fn # None
        /\ Len(sent[r1]) = 1 /\ sent[r1][1].s = "OK"
        /\ requests[r1].steps = <<"lookup", "call", "await", "reply">>
        /\ Len(sent[r2]) = 1 /\ sent[r2][1].s = "BAD_PARAMS"
        /\ requests[r2].steps = <<"lookup", "call", "reply">>

\* ----------------------------------------------------------------------- C14
\* a collector with a positive expected count holds at most that many
C14_AtMostExpected ==
    collector # << >> =>
        (collector[1].expect > 0 =>
            Len(collector[1].responses) <= collector[1].expect)

\* C14: a Response Collector with expected count n > 0 never holds more than
\* n Responses, and once its completion condition has fired (count reached or
\* deadline elapsed) no step adds a Response to it
C14_Collector ==
    /\ []C14_AtMostExpected
    /\ [][(collector # << >> /\ collector[1].complete # "no")
            => collector'[1].responses = collector[1].responses]_vars

\* a collector expecting n that holds n Responses after more than n arrived
C14_Witness ==
    /\ collector # << >>
    /\ collector[1].expect > 0
    /\ collector[1].complete = "count"
    /\ Len(collector[1].responses) = collector[1].expect
    /\ Len(collector[1].arrivals) > collector[1].expect

\* ----------------------------------------------------------------------- C15
\* the call expects n > 0 Responses and has no timeout
ExpectsCount == collector # << >> /\ collector[1].expect > 0
                    /\ collector[1].timeout = None

\* a bulk wait that returned did so after n Responses had arrived, without an
\* error, with exactly the first n that arrived, in arrival order
C15_Returned ==
    (ExpectsCount /\ collector[1].returned # << >>) =>
        /\ Len(collector[1].arrivals) >= collector[1].expect
        /\ ~collector[1].returned[1].raised
        /\ collector[1].returned[1].ret =
              SubSeq(collector[1].arrivals, 1, collector[1].expect)

\* C15: with expect_responses = n > 0 and no timeout, the bulk wait returns
\* once n Responses have arrived, and what it returns is exactly those n in
\* arrival order; a Response that arrives later is not in it
C15_BulkWait ==
    /\ []C15_Returned
    /\ (ExpectsCount /\ Len(collector[1].arrivals) >= collector[1].expect)
          ~> (ExpectsCount /\ collector[1].returned # << >>)

\* two different Responses were expected and returned in their order of
\* arrival, and a third one arrived
C15_Witness ==
    /\ ExpectsCount
    /\ collector[1].expect = 2
    /\ Len(collector[1].arrivals) = 3
    /\ collector[1].arrivals[1] # collector[1].arrivals[2]
    /\ collector[1].returned # << >>
    /\ collector[1].returned[1].ret = SubSeq(collector[1].arrivals, 1, 2)

\* ----------------------------------------------------------------------- C16
\* the call expects no particular count and has a timeout
ExpectsTimeout == collector # << >> /\ collector[1].expect = 0
                      /\ collector[1].timeout # None

\* a bulk wait that returned did so after the deadline, without an error,
\* with exactly the Responses that had arrived before the deadline
C16_Returned ==
    (ExpectsTimeout /\ collector[1].returned # << >>) =>
        /\ collector[1].at_deadline # << >>
        /\ ~collector[1].returned[1].raised
        /\ collector[1].returned[1].ret =
              SubSeq(collector[1].arrivals, 1, collector[1].at_deadline[1])

\* C16: with expect_responses = 0 and a timeout T, the bulk wait terminates:
\* it returns after T has elapsed, without an error, the possibly empty
\* sequence of Responses that arrived before T
C16_Timeout ==
    /\ []C16_Returned
    /\ ExpectsTimeout ~> (ExpectsTimeout /\ collector[1].returned # << >>)

\* one Response arrived before the deadline and one after it, and the bulk
\* wait returned the first
C16_Witness ==
    /\ ExpectsTimeout
    /\ collector[1].at_deadline = <<1>>
    /\ Len(collector[1].arrivals) = 2
    /\ collector[1].returned # << >>
    /\ ~collector[1].returned[1].raised
    /\ collector[1].returned[1].ret = <<collector[1].arrivals[1]>>

\* ----------------------------------------------------------------------- C17
\* a step that dispatches a request: the request is new in requests
Dispatches(r) == r \notin DOMAIN requests /\ r \in DOMAIN requests'

\* C17: the handler that serves a request is the one the registry held for
\* its index in the state in which the request was dispatched, and it is
\* called in that same step; it stays the handler of the request in every
\* later step; a step that changes the registry changes no request and no
\* Response, so it shows only in requests dispatched after it; and what is
\* sent for a request does not depend on the registry
C17_LookupAndCall ==
    /\ [][/\ \A r \in DOMAIN requests :
              /\ r \in DOMAIN requests'
              /\ requests'[r].fn = requests[r].fn
              /\ requests'[r].command_index = requests[r].command_index
          /\ \A r \in 1..MaxRequests :
              Dispatches(r) =>
                 /\ requests'[r].fn = get(requests'[r].command_index)
                 /\ (requests'[r].fn # None =>
                       SubSeq(requests'[r].steps, 1, 2) = <<"lookup", "call">>)
          /\ _commands' # _commands =>
                 (requests' = requests /\ sent' = sent)]_vars
    /\ [](\A r \in DOMAIN requests : sent[r] = OwnResponses(requests[r]))

\* a request found h under its index and is suspended in its handler; the
\* index was removed and registered again with another handler since, and a
\* request dispatched after that is served by the other handler
C17_Witness ==
    \E r1, r2 \in DOMAIN requests :
        /\ r1 < r2
        /\ requests[r1].command_index = requests[r2].command_index
        /\ requests[r1].pc = "awaiting"
        /\ requests[r1].fn # None /\ requests[r2].fn # None
        /\ requests[r1].fn # requests[r2].fn
        /\ _commands[requests[r1].command_index] = requests[r2].fn

\* ----------------------------------------------------------------------- C18
\* the reply operations the dispatch of a request has begun
ReplyOperations(steps) == {i \in DOMAIN steps : steps[i] = "reply"}

\* the status of the reply each branch of _handle_request makes
StatusOfBranch(branch) ==
    CASE branch = "unknown_command" -> "UNKNOWN_COMMAND"
      [] branch = "bad_params" -> "BAD_PARAMS"
      [] branch = "internal_error" -> "INTERNAL_ERROR"
      [] branch = "ok" -> "OK"
      [] OTHER -> None

\* C18: on every path the dispatch of a request begins at most one reply
\* operation and sends at most one Response; the reply is the last thing the
\* dispatch does, so the first branch that replies decides the status:
\* UNKNOWN_COMMAND after the lookup alone, BAD_PARAMS after the call alone,
\* OK or INTERNAL_ERROR after the await, and the Response sent carries the
\* status of that one branch
C18_OneReply ==
    \A r \in DOMAIN requests :
        LET steps == requests[r].steps
        IN  /\ Cardinality(ReplyOperations(steps)) <= 1
            /\ Len(sent[r]) <= Cardinality(ReplyOperations(steps))
            /\ ReplyOperations(steps) \subseteq {Len(steps)}
            /\ (ReplyOperations(steps) # {}) <=>
                  (StatusOfBranch(requests[r].branch) # None)
            /\ \A i \in DOMAIN sent[r] :
                  sent[r][i].s = StatusOfBranch(requests[r].branch)
            /\ requests[r].branch = "unknown_command" <=>
                  steps = <<"lookup", "reply">>
            /\ requests[r].branch = "bad_params" <=>
                  steps = <<"lookup", "call", "reply">>
            /\ requests[r].branch \in {"ok", "internal_error"} <=>
                  steps = <<"lookup", "call", "await", "reply">>

\* two dispatches that ended, each with the one Response of its branch: one
\* answered BAD_PARAMS after the call, one INTERNAL_ERROR after the await
C18_Witness ==
    \E r1, r2 \in DOMAIN requests :
        /\ Terminated(r1) /\ Terminated(r2)
        /\ requests[r1].branch = "bad_params"
        /\ Len(sent[r1]) = 1 /\ sent[r1][1].s = "BAD_PARAMS"
        /\ requests[r2].branch = "internal_error"
        /\ Len(sent[r2]) = 1 /\ sent[r2][1].s = "INTERNAL_ERROR"

\* ----------------------------------------------------------------------- C19
\* C19: a BAD_PARAMS Response is sent only by the dispatch whose call of the
\* handler raised TypeError, before anything was awaited; a dispatch whose
\* awaited handler raised, a TypeError from the handler's body included,
\* sends no BAD_PARAMS Response: with an address it sends INTERNAL_ERROR with
\* the message, without one nothing
C19_BadParamsOnlyAtCall ==
    \A r \in DOMAIN requests :
        /\ \A i \in DOMAIN sent[r] :
              sent[r][i].s = "BAD_PARAMS" =>
                  /\ requests[r].branch = "bad_params"
                  /\ r \notin DOMAIN errors
                  /\ Pos(requests[r].steps, "await") = 0
        /\ r \in DOMAIN errors <=> requests[r].branch = "internal_error"
        /\ r \in DOMAIN errors =>
              /\ HappensBefore(requests[r].steps, "call", "await")
              /\ sent[r] = RepliedWith(r, "INTERNAL_ERROR")

\* the awaited body of a handler raised TypeError and the request, which has
\* an address, was answered INTERNAL_ERROR with the message
C19_Witness ==
    \E r \in DOMAIN requests :
        /\ r \in DOMAIN errors
        /\ errors[r] = "TypeError"
        /\ requests[r].address # None
        /\ Len(sent[r]) = 1
        /\ sent[r][1].s = "INTERNAL_ERROR"
        /\ sent[r][1]["d"] = requests[r].value

====
